---- MODULE Spec2Model ----
(***************************************************************************)
(* Model of the two analyzers of ansible-reviewer/scripts:                 *)
(*   analyze_role_structure.py : analyze_role_structure(role_path)         *)
(*   run_ansible_lint.py       : run_ansible_lint(path)                    *)
(*                                                                         *)
(* The filesystem is a finite map from paths (sequences of names, <<>> is  *)
(* the role root) to nodes.  The pathlib calls of the code are modelled by *)
(* what CPython's pathlib does on POSIX (checked against CPython 3.11):    *)
(* stat() follows symlinks; Path.exists/is_dir/is_file answer False for    *)
(* ENOENT and ENOTDIR and propagate every other OSError (EACCES is raised  *)
(* as PermissionError); Path.glob swallows the PermissionError of a        *)
(* directory it cannot list and does not descend into symlinked            *)
(* directories.                                                            *)
(***************************************************************************)
EXTENDS Integers, Sequences, FiniteSets, TLC

VARIABLES
    fs,               \* the filesystem under (and including) the role root
    sPc,              \* position of analyze_role_structure
    structure,        \* analysis["structure"]
    issues,           \* analysis["issues"]
    recommendations,  \* analysis["recommendations"]
    summary,          \* analysis["summary"]
    sExc,             \* exception that left analyze_role_structure, or "none"
    tool,             \* what the execution environment holds for "ansible-lint"
    lPc,              \* position of run_ansible_lint
    proc,             \* the external process: none, running, exited, killed
    pipes,            \* the write ends of its output pipes: none, open, closed
    exitCode,         \* the exit status of the external process
    outBytes,         \* what it wrote to standard output
    errBytes,         \* what it wrote to standard error
    result,           \* the CompletedProcess of subprocess.run, once it returned
    report,           \* the LintReport returned
    lExc,             \* exception caught by run_ansible_lint, or "none"
    runCalls          \* calls of subprocess.run made so far

svars == <<fs, sPc, structure, issues, recommendations, summary, sExc>>

lvars == <<tool, lPc, proc, pipes, exitCode, outBytes, errBytes, result, report,
           lExc, runCalls>>

vars == <<fs, sPc, structure, issues, recommendations, summary, sExc,
          tool, lPc, proc, pipes, exitCode, outBytes, errBytes, result, report,
          lExc, runCalls>>

----------------------------------------------------------------------------
(* The catalog: expected_dirs, in the dict's order.                        *)

Catalog ==
    << "tasks", "handlers", "templates", "files", "vars", "defaults", "meta",
       "library", "module_utils", "lookup_plugins" >>

CatalogSet == { Catalog[i] : i \in 1..Len(Catalog) }

Description(d) ==
    CASE d = "tasks"          -> "Task files (main.yml required)"
      [] d = "handlers"       -> "Handler files"
      [] d = "templates"      -> "Jinja2 templates"
      [] d = "files"          -> "Static files"
      [] d = "vars"           -> "Variable files"
      [] d = "defaults"       -> "Default variables (main.yml recommended)"
      [] d = "meta"           -> "Role metadata (main.yml for Galaxy)"
      [] d = "library"        -> "Custom modules"
      [] d = "module_utils"   -> "Module utilities"
      [] d = "lookup_plugins" -> "Custom lookup plugins"

----------------------------------------------------------------------------
(* Filesystem nodes.  kind is what lstat() reports, with a symlink split   *)
(* by what it resolves to.  perm matters for directories only: "r" lets    *)
(* the caller list the directory, "x" lets it look names up in it.         *)

Node(k, p) == [kind |-> k, perm |-> p]

Perms == { "rwx", "r--", "--x", "---" }

CanList(p)   == fs[p].perm \in { "rwx", "r--" }

CanSearch(p) == fs[p].perm \in { "rwx", "--x" }

\* Directory-like after following symlinks.
DirLike(p) == fs[p].kind \in { "dir", "lnk_dir" }

\* What the kernel answers while resolving the directory q on the way to a
\* longer path: "ok" when names can be looked up in q.
Traverse(q) ==
    IF q \notin DOMAIN fs THEN "ENOENT"
    ELSE IF fs[q].kind = "lnk_broken" THEN "ENOENT"
    ELSE IF ~DirLike(q) THEN "ENOTDIR"
    ELSE IF ~CanSearch(q) THEN "EACCES"
    ELSE "ok"

\* os.stat(p), following symlinks: the file type, or the errno.
Stat(p) ==
    LET bad == { i \in 0..(Len(p) - 1) : Traverse(SubSeq(p, 1, i)) # "ok" }
    IN  IF bad # {}
        THEN Traverse(SubSeq(p, 1, CHOOSE i \in bad : \A j \in bad : i <= j))
        ELSE IF p \notin DOMAIN fs THEN "ENOENT"
        ELSE CASE fs[p].kind = "reg"        -> "reg"
               [] fs[p].kind = "lnk_reg"    -> "reg"
               [] fs[p].kind = "dir"        -> "dir"
               [] fs[p].kind = "lnk_dir"    -> "dir"
               [] fs[p].kind = "special"    -> "special"
               [] fs[p].kind = "lnk_broken" -> "ENOENT"

\* exists(), is_dir() and is_file() answer False for ENOENT and ENOTDIR
\* (pathlib._ignore_error); on EACCES the probe raises PermissionError
\* instead of answering.
ProbeRaises(p) == Stat(p) = "EACCES"

PathExists(p) == Stat(p) \in { "reg", "dir", "special" }

PathIsDir(p) == Stat(p) = "dir"

PathIsFile(p) == Stat(p) = "reg"

\* The entries of directory p, as os.scandir(p) lists them.
Children(p) == { q \in DOMAIN fs : Len(q) = Len(p) + 1 /\ SubSeq(q, 1, Len(p)) = p }

\* os.scandir(p) succeeds.
ScandirOk(p) == PathIsDir(p) /\ CanList(p)

\* Mutant: the glob does not recurse ("*" for "**/*").
IterateDirectoriesFlat(p) == {p}

\* _RecursiveWildcardSelector._iterate_directories: p, and every real
\* (not symlinked) directory below it that can be reached by listing.
RECURSIVE IterateDirectories(_)
IterateDirectories(p) ==
    {p} \cup
    IF ScandirOk(p)
    THEN UNION { IterateDirectories(q) : q \in { c \in Children(p) : fs[c].kind = "dir" } }
    ELSE {}

\* list(dir_path.glob("**/*")): every entry of every directory iterated.
GlobAll(p) ==
    IF ~PathIsDir(p) THEN {}
    ELSE UNION { Children(d) : d \in { e \in IterateDirectories(p) : ScandirOk(e) } }

\* len([f for f in files if f.is_file()])
FileCount(p) == Cardinality({ f \in GlobAll(p) : PathIsFile(f) })

\* fnmatch of a name against "README*" (case-sensitive on POSIX), over the
\* names the model's filesystems use.
MatchesReadme(name) == name \in { "README", "README.md", "README.rst" }

\* list(role_path.glob("README*"))
GlobReadme ==
    IF ~(PathIsDir(<<>>) /\ CanList(<<>>)) THEN {}
    ELSE { q \in Children(<<>>) : MatchesReadme(q[1]) }

----------------------------------------------------------------------------
(* analyze_role_structure                                                  *)

\* Mutant: the is_dir() test is left out.
DirectoryStatusNoIsDir(d) ==
    IF PathExists(<<d>>)
    THEN [exists |-> TRUE, file_count |-> FileCount(<<d>>), description |-> Description(d)]
    ELSE [exists |-> FALSE, description |-> Description(d)]

\* One iteration of the loop over expected_dirs: the entry recorded for d.
DirectoryStatus(d) ==
    IF PathExists(<<d>>) /\ PathIsDir(<<d>>)
    THEN [exists |-> TRUE, file_count |-> FileCount(<<d>>), description |-> Description(d)]
    ELSE [exists |-> FALSE, description |-> Description(d)]

\* The iteration for d raises: a probe of d, or is_file() of an enumerated
\* entry, meets EACCES.
DirectoryStatusRaises(d) ==
    \/ ProbeRaises(<<d>>)
    \/ /\ PathIsDir(<<d>>)
       /\ \E f \in GlobAll(<<d>>) : ProbeRaises(f)

MissingTasksIssue ==
    [severity |-> "error",
     message |-> "Missing tasks/main.yml - required entry point for role"]

Recommendation(t) ==
    [type |-> t,
     message |->
        CASE t = "documentation" -> "Consider adding README.md to document the role"
          [] t = "metadata" -> "Consider adding meta/main.yml for Ansible Galaxy compatibility"
          [] t = "variables" -> "Consider adding defaults/main.yml to define role defaults"
          [] t = "testing" -> "Consider adding tests/ or molecule/ directory for role testing"]

Raise(e) ==
    /\ sPc' = "raised"
    /\ sExc' = e
    /\ UNCHANGED <<fs, structure, issues, recommendations, summary>>
    /\ UNCHANGED lvars

\* Lines 35-50: the loop over expected_dirs.
ScanDirs ==
    /\ sPc = "scan"
    /\ IF \E d \in CatalogSet : DirectoryStatusRaises(d)
       THEN Raise("PermissionError")
       ELSE /\ structure' = [d \in CatalogSet |-> DirectoryStatus(d)]
            /\ sPc' = "required"
            /\ UNCHANGED <<fs, issues, recommendations, summary, sExc>>
            /\ UNCHANGED lvars

\* Mutant: the directory tasks is probed, not tasks/main.yml.
CheckRequiredTasksDir ==
    /\ sPc = "required"
    /\ IF ProbeRaises(<<"tasks">>)
       THEN Raise("PermissionError")
       ELSE /\ issues' = IF ~PathExists(<<"tasks">>)
                         THEN Append(issues, MissingTasksIssue)
                         ELSE issues
            /\ sPc' = "readme"
            /\ UNCHANGED <<fs, structure, recommendations, summary, sExc>>
            /\ UNCHANGED lvars

\* Lines 52-58: the required file.
CheckRequired ==
    /\ sPc = "required"
    /\ IF ProbeRaises(<<"tasks", "main.yml">>)
       THEN Raise("PermissionError")
       ELSE /\ issues' = IF ~PathExists(<<"tasks", "main.yml">>)
                         THEN Append(issues, MissingTasksIssue)
                         ELSE issues
            /\ sPc' = "readme"
            /\ UNCHANGED <<fs, structure, recommendations, summary, sExc>>
            /\ UNCHANGED lvars

\* Lines 60-66: README*.
CheckReadme ==
    /\ sPc = "readme"
    /\ IF ProbeRaises(<<>>)
       THEN Raise("PermissionError")
       ELSE /\ recommendations' = IF GlobReadme = {}
                                  THEN Append(recommendations, Recommendation("documentation"))
                                  ELSE recommendations
            /\ sPc' = "meta"
            /\ UNCHANGED <<fs, structure, issues, summary, sExc>>
            /\ UNCHANGED lvars

\* Lines 68-74: meta/main.yml.
CheckMeta ==
    /\ sPc = "meta"
    /\ IF ProbeRaises(<<"meta", "main.yml">>)
       THEN Raise("PermissionError")
       ELSE /\ recommendations' = IF ~PathExists(<<"meta", "main.yml">>)
                                  THEN Append(recommendations, Recommendation("metadata"))
                                  ELSE recommendations
            /\ sPc' = "defaults"
            /\ UNCHANGED <<fs, structure, issues, summary, sExc>>
            /\ UNCHANGED lvars

\* Mutant: the check is an elif of the check before it: skipped when
\* the metadata recommendation was made.
CheckDefaultsElif ==
    /\ sPc = "defaults"
    /\ IF ProbeRaises(<<"defaults", "main.yml">>)
       THEN Raise("PermissionError")
       ELSE /\ recommendations' =
                IF /\ ~PathExists(<<"defaults", "main.yml">>)
                   /\ PathExists(<<"meta", "main.yml">>)
                THEN Append(recommendations, Recommendation("variables"))
                ELSE recommendations
            /\ sPc' = "tests"
            /\ UNCHANGED <<fs, structure, issues, summary, sExc>>
            /\ UNCHANGED lvars

\* Lines 76-82: defaults/main.yml.
CheckDefaults ==
    /\ sPc = "defaults"
    /\ IF ProbeRaises(<<"defaults", "main.yml">>)
       THEN Raise("PermissionError")
       ELSE /\ recommendations' = IF ~PathExists(<<"defaults", "main.yml">>)
                                  THEN Append(recommendations, Recommendation("variables"))
                                  ELSE recommendations
            /\ sPc' = "tests"
            /\ UNCHANGED <<fs, structure, issues, summary, sExc>>
            /\ UNCHANGED lvars

\* Lines 84-91: tests/ or molecule/.  molecule is probed only when tests
\* does not exist (short-circuit "and").
CheckTests ==
    /\ sPc = "tests"
    /\ IF \/ ProbeRaises(<<"tests">>)
          \/ (~PathExists(<<"tests">>) /\ ProbeRaises(<<"molecule">>))
       THEN Raise("PermissionError")
       ELSE /\ recommendations' =
                IF ~PathExists(<<"tests">>) /\ ~PathExists(<<"molecule">>)
                THEN Append(recommendations, Recommendation("testing"))
                ELSE recommendations
            /\ sPc' = "summary"
            /\ UNCHANGED <<fs, structure, issues, summary, sExc>>
            /\ UNCHANGED lvars

\* Mutant: directories_present counts every entry of structure.
SummarizeCountsAll ==
    /\ sPc = "summary"
    /\ summary' =
         [directories_present |-> Cardinality(DOMAIN structure),
          total_expected |-> Len(Catalog),
          issue_count |-> Len(issues),
          recommendation_count |-> Len(recommendations)]
    /\ sPc' = "returned"
    /\ UNCHANGED <<fs, structure, issues, recommendations, sExc>>
    /\ UNCHANGED lvars

\* Lines 93-101: the summary, and the return.
Summarize ==
    /\ sPc = "summary"
    /\ summary' =
         [directories_present |-> Cardinality({ d \in DOMAIN structure : structure[d].exists }),
          total_expected |-> Len(Catalog),
          issue_count |-> Len(issues),
          recommendation_count |-> Len(recommendations)]
    /\ sPc' = "returned"
    /\ UNCHANGED <<fs, structure, issues, recommendations, sExc>>
    /\ UNCHANGED lvars

NoSummary == [directories_present |-> 0, total_expected |-> 0,
              issue_count |-> 0, recommendation_count |-> 0]

----------------------------------------------------------------------------
(* run_ansible_lint                                                        *)

\* Longest output of the external tool, in symbols.
MaxOut == 4

\* Nesting depth at which json.loads raises RecursionError (the interpreter's
\* recursion limit, scaled down to the outputs the model can produce).
RecursionLimit == 2

\* What the tool can write: JSON punctuation, a number, a character that is
\* no JSON, and a byte that is not valid in the locale's encoding.
Symbols == { "[", "]", ",", "0", "x", "BAD" }

SeqsUpTo(S, n) == UNION { [1..k -> S] : k \in 0..n }

Outputs == SeqsUpTo(Symbols, MaxOut)

ErrOutputs == { <<>>, <<"x">>, <<"BAD">> }

ExitCodes == { 0, 2 }

\* text=True: the captured bytes decoded (strict) in the locale's encoding.
Undecodable(bytes) == \E i \in 1..Len(bytes) : bytes[i] = "BAD"

Decode(bytes) == [ i \in 1..Len(bytes) |-> bytes[i] ]

\* JSON values.
JNum == [t |-> "num", items |-> <<>>]

JArr(items) == [t |-> "arr", items |-> items]

POk(v, n) == [st |-> "ok", val |-> v, next |-> n]

PErr(e) == [st |-> e, val |-> JNum, next |-> 0]

\* json.loads, as the decoder scans: a value at position i, at array depth d.
\* "syntax" is json.JSONDecodeError, "recursion" is RecursionError.
RECURSIVE ParseValue(_, _, _)
RECURSIVE ParseItems(_, _, _, _)
ParseValue(s, i, d) ==
    IF i > Len(s) THEN PErr("syntax")
    ELSE IF s[i] = "0" THEN POk(JNum, i + 1)
    ELSE IF s[i] = "["
         THEN IF d + 1 > RecursionLimit THEN PErr("recursion")
              ELSE IF i + 1 <= Len(s) /\ s[i + 1] = "]" THEN POk(JArr(<<>>), i + 2)
              ELSE ParseItems(s, i + 1, d + 1, <<>>)
    ELSE PErr("syntax")

ParseItems(s, i, d, acc) ==
    LET v == ParseValue(s, i, d)
    IN  IF v.st # "ok" THEN v
        ELSE IF v.next > Len(s) THEN PErr("syntax")
        ELSE IF s[v.next] = "]" THEN POk(JArr(Append(acc, v.val)), v.next + 1)
        ELSE IF s[v.next] = "," THEN ParseItems(s, v.next + 1, d, Append(acc, v.val))
        ELSE PErr("syntax")

\* json.loads(s): one value, and nothing after it.
Loads(s) ==
    LET v == ParseValue(s, 1, 0)
    IN  IF v.st = "ok" /\ v.next <= Len(s) THEN PErr("syntax") ELSE v

NotInstalledMsg == "ansible-lint not found. Install with: pip install ansible-lint"

TimeoutMsg == "ansible-lint timed out after 60 seconds"

\* str(e) of the other exceptions the model raises.
StrOf(e) ==
    CASE e = "PermissionError" -> "[Errno 13] Permission denied: 'ansible-lint'"
      [] e = "UnicodeDecodeError" -> "'utf-8' codec can't decode byte"
      [] e = "RecursionError" -> "maximum recursion depth exceeded while decoding a JSON array"
      [] OTHER -> e

\* Mutant: only the last except clause is there.
ErrorReportGeneric(e) == [success |-> FALSE, error |-> StrOf(e)]

\* Lines 47-61: the except clauses, in their order.
ErrorReport(e) ==
    IF e = "FileNotFoundError" THEN [success |-> FALSE, error |-> NotInstalledMsg]
    ELSE IF e = "TimeoutExpired" THEN [success |-> FALSE, error |-> TimeoutMsg]
    ELSE [success |-> FALSE, error |-> StrOf(e)]

\* An exception raised inside the try block is caught and reported.
Catch(e) ==
    /\ lExc' = e
    /\ report' = ErrorReport(e)
    /\ lPc' = "done"

\* Lines 14-19: subprocess.run starts the tool.
Spawn ==
    /\ lPc = "start"
    /\ runCalls' = runCalls + 1
    /\ IF tool = "missing"
       THEN /\ Catch("FileNotFoundError")
            /\ UNCHANGED <<proc, pipes>>
       ELSE IF tool = "noexec"
       THEN /\ Catch("PermissionError")
            /\ UNCHANGED <<proc, pipes>>
       ELSE /\ proc' = "running"
            /\ pipes' = "open"
            /\ lPc' = "communicate"
            /\ UNCHANGED <<report, lExc>>
    /\ UNCHANGED <<tool, exitCode, outBytes, errBytes, result>>
    /\ UNCHANGED svars

\* The external tool exits, having written its output; a descendant of it may
\* still hold the pipes open.
ToolExit ==
    /\ lPc = "communicate"
    /\ proc = "running"
    /\ proc' = "exited"
    /\ \E out \in Outputs, err \in ErrOutputs, code \in ExitCodes, held \in BOOLEAN :
          /\ outBytes' = out
          /\ errBytes' = err
          /\ exitCode' = code
          /\ pipes' = IF held THEN "open" ELSE "closed"
    /\ UNCHANGED <<tool, lPc, result, report, lExc, runCalls>>
    /\ UNCHANGED svars

\* The last holder of the pipes closes them.
PipesClose ==
    /\ lPc = "communicate"
    /\ proc = "exited"
    /\ pipes = "open"
    /\ pipes' = "closed"
    /\ UNCHANGED <<tool, lPc, proc, exitCode, outBytes, errBytes, result, report,
                   lExc, runCalls>>
    /\ UNCHANGED svars

\* Lines 14-19: communicate() reads both pipes to their end and the process
\* is reaped: subprocess.run returns, or raises on undecodable output.
CommunicateReturns ==
    /\ lPc = "communicate"
    /\ proc = "exited"
    /\ pipes = "closed"
    /\ IF Undecodable(outBytes) \/ Undecodable(errBytes)
       THEN /\ Catch("UnicodeDecodeError")
            /\ UNCHANGED result
       ELSE /\ result' = [returncode |-> exitCode, stdout |-> Decode(outBytes),
                          stderr |-> Decode(errBytes)]
            /\ lPc' = "completed"
            /\ UNCHANGED <<report, lExc>>
    /\ UNCHANGED <<tool, proc, pipes, exitCode, outBytes, errBytes, runCalls>>
    /\ UNCHANGED svars

\* Mutant: subprocess.run is called without a timeout.
TimerNever ==
    /\ lPc = "communicate"
    /\ FALSE
    /\ UNCHANGED vars

\* Line 18: the timeout elapses while communicate() is still waiting:
\* subprocess.run kills the process, reaps it, and raises TimeoutExpired.
TimerExpires ==
    /\ lPc = "communicate"
    /\ proc' = IF proc = "running" THEN "killed" ELSE proc
    /\ Catch("TimeoutExpired")
    /\ UNCHANGED <<tool, pipes, exitCode, outBytes, errBytes, result, runCalls>>
    /\ UNCHANGED svars

\* Lines 28-34: findings from the captured standard output.
Findings(stdout) ==
    IF stdout = <<>> THEN [kind |-> "json", val |-> JArr(<<>>)]
    ELSE IF Loads(stdout).st = "ok" THEN [kind |-> "json", val |-> Loads(stdout).val]
    ELSE [kind |-> "raw", text |-> stdout]

\* Lines 39-43: the summary.
SummaryOf(findings) ==
    IF findings.kind = "json" /\ findings.val.t = "arr"
    THEN [text |-> "Found n ansible-lint findings", n |-> Len(findings.val.items)]
    ELSE [text |-> "ansible-lint completed"]

\* Lines 22-45: the report of a completed run.
Output(res) ==
    IF res.stderr # <<>>
    THEN [success |-> TRUE, findings |-> Findings(res.stdout),
          summary |-> SummaryOf(Findings(res.stdout)), stderr |-> res.stderr]
    ELSE [success |-> TRUE, findings |-> Findings(res.stdout),
          summary |-> SummaryOf(Findings(res.stdout))]

\* json.loads raises something json.JSONDecodeError does not cover.
LoadsRaisesOther(stdout) == stdout # <<>> /\ Loads(stdout).st = "recursion"

\* Lines 22-45.
BuildReport ==
    /\ lPc = "completed"
    /\ IF LoadsRaisesOther(result.stdout)
       THEN Catch("RecursionError")
       ELSE /\ report' = Output(result)
            /\ lPc' = "done"
            /\ UNCHANGED lExc
    /\ UNCHANGED <<tool, proc, pipes, exitCode, outBytes, errBytes, result, runCalls>>
    /\ UNCHANGED svars

NoResult == [pending |-> TRUE]

NoReport == [pending |-> TRUE]

----------------------------------------------------------------------------
(* The filesystems the analyzer is run on.                                 *)

MainDirs == { "tasks", "meta", "defaults" }

Extras == { "README.md", "tests", "molecule" }

\* An ordinary role: any set of catalog directories, main.yml in any of
\* tasks, meta, defaults that are there, README.md a regular file, tests
\* and molecule directories.
PlainPaths(present, mains, extras) ==
    {<<>>} \cup { <<d>> : d \in present } \cup { <<d, "main.yml">> : d \in mains }
           \cup { <<e>> : e \in extras }

PlainFs(present, mains, extras) ==
    [ p \in PlainPaths(present, mains \cap present, extras) |->
        IF Len(p) = 2 \/ p = <<"README.md">> THEN Node("reg", "rwx") ELSE Node("dir", "rwx") ]

PlainRoles ==
    { PlainFs(present, mains, extras) :
        present \in SUBSET CatalogSet, mains \in SUBSET MainDirs, extras \in SUBSET Extras }

\* One catalog directory d of any shape, in an otherwise empty role: d itself
\* of any kind and permission, a main.yml of any kind in it, and a
\* subdirectory sub holding a.yml and a nested directory deep with b.yml.
TopKinds == { "reg", "special", "lnk_broken", "lnk_reg", "dir", "lnk_dir" }

DeepDirs == { "tasks", "meta", "defaults", "files" }

DeepChoices ==
    { c \in [ k0 : TopKinds, p0 : Perms,
              k1 : { "none", "reg", "lnk_reg", "lnk_broken", "special", "dir" },
              k2 : { "none", "reg", "dir", "lnk_dir" }, p2 : { "rwx", "---" },
              k3 : { "none", "reg", "lnk_reg", "special" },
              k4 : { "none", "dir" }, k5 : { "none", "reg" } ] :
        /\ c.k0 \notin { "dir", "lnk_dir" } =>
              c.p0 = "rwx" /\ c.k1 = "none" /\ c.k2 = "none"
        /\ c.k2 \notin { "dir", "lnk_dir" } =>
              c.p2 = "rwx" /\ c.k3 = "none" /\ c.k4 = "none"
        /\ c.k4 = "none" => c.k5 = "none" }

DeepPaths(d, c) ==
    { <<>>, <<d>> }
      \cup (IF c.k1 # "none" THEN { <<d, "main.yml">> } ELSE {})
      \cup (IF c.k2 # "none" THEN { <<d, "sub">> } ELSE {})
      \cup (IF c.k3 # "none" THEN { <<d, "sub", "a.yml">> } ELSE {})
      \cup (IF c.k4 # "none" THEN { <<d, "sub", "deep">> } ELSE {})
      \cup (IF c.k5 # "none" THEN { <<d, "sub", "deep", "b.yml">> } ELSE {})

DeepFs(d, c) ==
    [ p \in DeepPaths(d, c) |->
        CASE p = <<>>                          -> Node("dir", "rwx")
          [] p = <<d>>                         -> Node(c.k0, c.p0)
          [] p = <<d, "main.yml">>             -> Node(c.k1, "rwx")
          [] p = <<d, "sub">>                  -> Node(c.k2, c.p2)
          [] p = <<d, "sub", "a.yml">>         -> Node(c.k3, "rwx")
          [] p = <<d, "sub", "deep">>          -> Node(c.k4, "rwx")
          [] p = <<d, "sub", "deep", "b.yml">> -> Node(c.k5, "rwx") ]

DeepRoles == { DeepFs(d, c) : d \in DeepDirs, c \in DeepChoices }

\* Roots of every kind: no root at all, a root that is a regular file, and
\* a root directory of any permission holding a README-like entry, tests
\* and molecule of several kinds, and tasks/main.yml or not.
NoRoot == [ p \in {} |-> Node("dir", "rwx") ]

FileRoot == [ p \in { <<>> } |-> Node("reg", "rwx") ]

ReadmeNames == { "none", "README", "README.md", "README.rst", "readme.md" }

RootChoices ==
    [ pr : Perms, readme : ReadmeNames,
      tests : { "none", "reg", "dir", "lnk_broken" },
      molecule : { "none", "dir", "lnk_broken" },
      tasks : BOOLEAN ]

RootPaths(c) ==
    { <<>> }
      \cup (IF c.readme # "none" THEN { <<c.readme>> } ELSE {})
      \cup (IF c.tests # "none" THEN { <<"tests">> } ELSE {})
      \cup (IF c.molecule # "none" THEN { <<"molecule">> } ELSE {})
      \cup (IF c.tasks THEN { <<"tasks">>, <<"tasks", "main.yml">> } ELSE {})

RootFs(c) ==
    [ p \in RootPaths(c) |->
        CASE p = <<>>                    -> Node("dir", c.pr)
          [] p = <<"README">>            -> Node("dir", "rwx")
          [] p = <<"README.rst">>        -> Node("lnk_broken", "rwx")
          [] p \in { <<"README.md">>, <<"readme.md">> } -> Node("reg", "rwx")
          [] p = <<"tests">>             -> Node(c.tests, "rwx")
          [] p = <<"molecule">>          -> Node(c.molecule, "rwx")
          [] p = <<"tasks">>             -> Node("dir", "rwx")
          [] p = <<"tasks", "main.yml">> -> Node("reg", "rwx") ]

RootRoles == { NoRoot, FileRoot } \cup { RootFs(c) : c \in RootChoices }

Roles == PlainRoles \cup DeepRoles \cup RootRoles

\* The state before either analyzer is called.
StructureFresh ==
    /\ structure = [d \in {} |-> 0]
    /\ issues = <<>>
    /\ recommendations = <<>>
    /\ summary = NoSummary
    /\ sExc = "none"

LintFresh ==
    /\ proc = "none"
    /\ pipes = "none"
    /\ exitCode = 0
    /\ outBytes = <<>>
    /\ errBytes = <<>>
    /\ result = NoResult
    /\ report = NoReport
    /\ lExc = "none"
    /\ runCalls = 0

\* One call of analyze_role_structure, on any of the roles.
InitS ==
    /\ fs \in Roles
    /\ sPc = "scan"
    /\ StructureFresh
    /\ tool = "ok"
    /\ lPc = "idle"
    /\ LintFresh

NextS ==
    \/ ScanDirs
    \/ CheckRequired
    \/ CheckReadme
    \/ CheckMeta
    \/ CheckDefaults
    \/ CheckTests
    \/ Summarize

SpecS == InitS /\ [][NextS]_vars

\* One call of run_ansible_lint, in any execution environment.
InitL ==
    /\ fs = NoRoot
    /\ sPc = "idle"
    /\ StructureFresh
    /\ tool \in { "missing", "noexec", "ok" }
    /\ lPc = "start"
    /\ LintFresh

NextL ==
    \/ Spawn
    \/ ToolExit
    \/ PipesClose
    \/ CommunicateReturns
    \/ TimerExpires
    \/ BuildReport

SpecL == InitL /\ [][NextL]_vars

\* The interpreter keeps running the call; the external tool owes nothing.
LiveSpecL ==
    /\ SpecL
    /\ WF_vars(Spawn)
    /\ WF_vars(CommunicateReturns)
    /\ WF_vars(TimerExpires)
    /\ WF_vars(BuildReport)

----------------------------------------------------------------------------
(* What a filesystem holds, said without the probes of the code.           *)

\* p names something, after following symlinks.
Resolves(p) == p \in DOMAIN fs /\ fs[p].kind # "lnk_broken"

\* p names a directory, after following symlinks.
IsDirectory(p) == p \in DOMAIN fs /\ fs[p].kind \in { "dir", "lnk_dir" }

\* An entry of the root the caller can see in a listing of the root.
ListedAtRoot(q) == q \in DOMAIN fs /\ Len(q) = 1 /\ fs[<<>>].perm \in { "rwx", "r--" }

\* The entries found below root/d by walking down from it: every directory on
\* the way can be listed, and none below d itself is a symlink.
FoundUnder(d) ==
    { p \in DOMAIN fs :
        /\ Len(p) >= 2
        /\ p[1] = d
        /\ \A i \in 1..(Len(p) - 1) :
              /\ fs[SubSeq(p, 1, i)].perm \in { "rwx", "r--" }
              /\ i >= 2 => fs[SubSeq(p, 1, i)].kind = "dir" }

TypesOf(recs) == { recs[i].type : i \in 1..Len(recs) }

----------------------------------------------------------------------------
(* Claims about analyze_role_structure, under SpecS.                       *)

\* C1: the report returned holds exactly one Issue, of severity "error", when
\* tasks/main.yml does not exist, and no Issue when it exists; nothing else
\* in the role decides the issues list.
C1_IssuesFollowTasksMain ==
    sPc = "returned" =>
        IF Resolves(<<"tasks", "main.yml">>)
        THEN issues = <<>>
        ELSE Len(issues) = 1 /\ issues[1].severity = "error"

\* C1 happens: tasks/ is there without main.yml while README.md and
\* meta/main.yml are there, and the one Issue is reported.
C1_Witness ==
    /\ sPc = "returned"
    /\ IsDirectory(<<"tasks">>)
    /\ ~Resolves(<<"tasks", "main.yml">>)
    /\ Resolves(<<"meta", "main.yml">>)
    /\ Resolves(<<"README.md">>)
    /\ Len(issues) = 1

\* C2: the summary of a returned report is the aggregate of the rest of it,
\* total_expected is 10, and with all ten catalog directories in the role
\* directories_present is 10.
C2_SummaryAggregates ==
    sPc = "returned" =>
        /\ summary.directories_present =
              Cardinality({ d \in DOMAIN structure : structure[d].exists })
        /\ summary.total_expected = 10
        /\ summary.issue_count = Len(issues)
        /\ summary.recommendation_count = Len(recommendations)
        /\ (\A d \in CatalogSet : IsDirectory(<<d>>)) =>
              summary.directories_present = 10

\* C2 happens: a role with all ten directories, an Issue and recommendations.
C2_Witness ==
    /\ sPc = "returned"
    /\ \A d \in CatalogSet : IsDirectory(<<d>>)
    /\ summary.directories_present = 10
    /\ summary.issue_count = 1
    /\ summary.recommendation_count = 2

\* C3, as claimed: in a returned report each of the four recommendations is
\* there iff its own condition holds, whatever the other checks found, and
\* at most once; documentation iff no entry matching README* lies directly
\* under root.
C3_RecommendationsAsClaimed ==
    sPc = "returned" =>
        LET types == TypesOf(recommendations)
        IN  /\ ("documentation" \in types) <=>
                  ~\E q \in DOMAIN fs : Len(q) = 1 /\ MatchesReadme(q[1])
            /\ ("metadata" \in types) <=> ~Resolves(<<"meta", "main.yml">>)
            /\ ("variables" \in types) <=> ~Resolves(<<"defaults", "main.yml">>)
            /\ ("testing" \in types) <=>
                  (~Resolves(<<"tests">>) /\ ~Resolves(<<"molecule">>))
            /\ types \subseteq { "documentation", "metadata", "variables", "testing" }
            /\ Len(recommendations) = Cardinality(types)

\* C3, amended: the same, with documentation there iff no entry matching
\* README* can be listed directly under root: none lies there, or the root
\* cannot be listed.
C3_RecommendationsIndependent ==
    sPc = "returned" =>
        LET types == TypesOf(recommendations)
        IN  /\ ("documentation" \in types) <=>
                  ~\E q \in DOMAIN fs : ListedAtRoot(q) /\ MatchesReadme(q[1])
            /\ ("metadata" \in types) <=> ~Resolves(<<"meta", "main.yml">>)
            /\ ("variables" \in types) <=> ~Resolves(<<"defaults", "main.yml">>)
            /\ ("testing" \in types) <=>
                  (~Resolves(<<"tests">>) /\ ~Resolves(<<"molecule">>))
            /\ types \subseteq { "documentation", "metadata", "variables", "testing" }
            /\ Len(recommendations) = Cardinality(types)

\* C3 happens: the root can be searched but not listed, README.md and tests/
\* are in it and defaults/main.yml is not: documentation and variables are
\* recommended, testing is not.
C3_Witness ==
    /\ sPc = "returned"
    /\ <<>> \in DOMAIN fs
    /\ fs[<<>>].perm = "--x"
    /\ Resolves(<<"README.md">>)
    /\ Resolves(<<"tests">>)
    /\ ~Resolves(<<"defaults", "main.yml">>)
    /\ "documentation" \in TypesOf(recommendations)
    /\ "variables" \in TypesOf(recommendations)
    /\ "testing" \notin TypesOf(recommendations)

\* C7: analyze_role_structure raises nothing, whatever the filesystem
\* answers, and for a root that is missing or cannot be searched the report
\* has all ten entries exists=false.
C7_NeverRaises ==
    /\ sPc # "raised"
    /\ (sPc = "returned" /\ (<<>> \notin DOMAIN fs \/ fs[<<>>].perm \in { "r--", "---" })) =>
          \A d \in CatalogSet : ~structure[d].exists

\* C9: a returned report has exactly the ten catalog keys with their
\* descriptions; exists is true iff root/name is a directory (a symlink to a
\* directory is one), and file_count is there iff exists.
C9_StructureEntries ==
    sPc = "returned" =>
        /\ DOMAIN structure =
              { "tasks", "handlers", "templates", "files", "vars", "defaults",
                "meta", "library", "module_utils", "lookup_plugins" }
        /\ \A d \in DOMAIN structure :
              /\ structure[d].description = Description(d)
              /\ structure[d].exists <=> IsDirectory(<<d>>)
              /\ ("file_count" \in DOMAIN structure[d]) <=> structure[d].exists
              /\ DOMAIN structure[d] \subseteq { "exists", "file_count", "description" }

\* C9 happens: a catalog name that is a regular file is reported exists=false
\* without a file_count.
C9_Witness ==
    /\ sPc = "returned"
    /\ \E d \in CatalogSet :
          /\ <<d>> \in DOMAIN fs
          /\ fs[<<d>>].kind = "reg"
          /\ ~structure[d].exists
          /\ "file_count" \notin DOMAIN structure[d]

\* C10, as claimed: file_count is the number of regular files found under
\* the directory, symlinks excluded.
C10_CountsRegularFilesOnly ==
    sPc = "returned" =>
        \A d \in DOMAIN structure :
            structure[d].exists =>
                structure[d].file_count =
                    Cardinality({ p \in FoundUnder(d) : fs[p].kind = "reg" })

\* C10, amended: file_count is the number of entries found under the
\* directory, at any depth, that are regular files after following symlinks:
\* regular files and symlinks to regular files.
C10_CountsFilesThroughSymlinks ==
    sPc = "returned" =>
        \A d \in DOMAIN structure :
            structure[d].exists =>
                structure[d].file_count =
                    Cardinality({ p \in FoundUnder(d) : fs[p].kind \in { "reg", "lnk_reg" } })

\* C10 happens: a symlink to a file, a file one level down and a file two
\* levels down are counted, 3 in all.
C10_Witness ==
    /\ sPc = "returned"
    /\ \E d \in DOMAIN structure :
          /\ structure[d].exists
          /\ structure[d].file_count = 3
          /\ <<d, "main.yml">> \in DOMAIN fs
          /\ fs[<<d, "main.yml">>].kind = "lnk_reg"
          /\ <<d, "sub", "deep", "b.yml">> \in FoundUnder(d)

----------------------------------------------------------------------------
(* JSON texts and their values, said without the decoder: by the grammar,  *)
(* with no limit on depth.                                                 *)

RECURSIVE IsJson(_)
RECURSIVE IsJsonItems(_)
IsJson(s) ==
    \/ s = <<"0">>
    \/ /\ Len(s) >= 2
       /\ s[1] = "["
       /\ s[Len(s)] = "]"
       /\ (Len(s) = 2 \/ IsJsonItems(SubSeq(s, 2, Len(s) - 1)))

IsJsonItems(t) ==
    \/ IsJson(t)
    \/ \E k \in 2..(Len(t) - 1) :
          /\ t[k] = ","
          /\ IsJson(SubSeq(t, 1, k - 1))
          /\ IsJsonItems(SubSeq(t, k + 1, Len(t)))

RECURSIVE JsonValue(_)
RECURSIVE JsonItems(_)
JsonValue(s) ==
    IF s = <<"0">> THEN JNum
    ELSE IF Len(s) = 2 THEN JArr(<<>>)
    ELSE JArr(JsonItems(SubSeq(s, 2, Len(s) - 1)))

JsonItems(t) ==
    IF IsJson(t) THEN << JsonValue(t) >>
    ELSE LET k == CHOOSE k \in 2..(Len(t) - 1) :
                    /\ t[k] = ","
                    /\ IsJson(SubSeq(t, 1, k - 1))
                    /\ IsJsonItems(SubSeq(t, k + 1, Len(t)))
         IN  << JsonValue(SubSeq(t, 1, k - 1)) >> \o JsonItems(SubSeq(t, k + 1, Len(t)))

\* The external tool ran to completion and its output was read to the end
\* before the timeout.
ToolCompleted == proc = "exited" /\ pipes = "closed" /\ lExc # "TimeoutExpired"

----------------------------------------------------------------------------
(* Claims about run_ansible_lint, under SpecL and LiveSpecL.               *)

\* C4: success=false only when the invocation failed (tool missing, timeout,
\* another exception of the invocation); once the tool has run to completion
\* success=true whatever it exited with and wrote; and with a nonzero exit
\* and valid JSON on standard output, findings is the JSON value.
C4_SuccessUnlessInvocationFails ==
    lPc = "done" =>
        /\ ~report.success =>
              lExc \in { "FileNotFoundError", "TimeoutExpired", "PermissionError",
                         "UnicodeDecodeError" }
        /\ ToolCompleted => report.success
        /\ (ToolCompleted /\ exitCode # 0 /\ ~Undecodable(outBytes) /\ IsJson(outBytes)) =>
              /\ report.success
              /\ report.findings = [kind |-> "json", val |-> JsonValue(outBytes)]

\* C5: when the tool completed and the text captured from its standard
\* output (read for a tool that printed something) is not valid JSON, the
\* report has success=true and findings is that text.
C5_RawTextFallback ==
    (lPc = "done" /\ result # NoResult /\ result.stdout # <<>> /\ ~IsJson(result.stdout)) =>
        /\ report.success
        /\ report.findings = [kind |-> "raw", text |-> result.stdout]

\* C6: every failure ends in a report of exactly success=false and an error
\* string of its category: the fixed "not installed" message iff the tool is
\* missing, the fixed timeout message for a timeout, the exception's own
\* message for anything else; and a call that is done has its report.
C6_FailuresCategorized ==
    lPc = "done" =>
        /\ report # NoReport
        /\ (lExc = "FileNotFoundError") <=> (tool = "missing")
        /\ tool = "missing" =>
              report = [success |-> FALSE,
                        error |-> "ansible-lint not found. Install with: pip install ansible-lint"]
        /\ lExc = "TimeoutExpired" =>
              report = [success |-> FALSE,
                        error |-> "ansible-lint timed out after 60 seconds"]
        /\ lExc \notin { "none", "FileNotFoundError", "TimeoutExpired" } =>
              /\ report = [success |-> FALSE, error |-> StrOf(lExc)]
              /\ report.error \notin
                    { "ansible-lint not found. Install with: pip install ansible-lint",
                      "ansible-lint timed out after 60 seconds" }
        /\ lExc # "none" => DOMAIN report = { "success", "error" }
        /\ lExc = "none" => report.success

\* C6 happens: the tool is missing and the call ends with the "not
\* installed" report.
C6_Witness ==
    /\ lPc = "done"
    /\ tool = "missing"
    /\ lExc = "FileNotFoundError"
    /\ report.error = "ansible-lint not found. Install with: pip install ansible-lint"

\* C8: every call ends with a report, whatever the external process does;
\* subprocess.run is called once and never again; and when the timeout
\* elapsed the process is not left running and the report is the timeout
\* error, with nothing of the output in it.
C8_AlwaysReturnsOnce ==
    /\ <>(lPc = "done")
    /\ [](runCalls <= 1)
    /\ [](lPc = "done" =>
            /\ runCalls = 1
            /\ report # NoReport
            /\ proc # "running"
            /\ lExc = "TimeoutExpired" =>
                  /\ report = [success |-> FALSE,
                               error |-> "ansible-lint timed out after 60 seconds"]
                  /\ result = NoResult)

\* C8 happens: the tool never exited, the timeout elapsed, the process was
\* killed and the call is done.
C8_Witness ==
    /\ lPc = "done"
    /\ lExc = "TimeoutExpired"
    /\ proc = "killed"
    /\ runCalls = 1

====
